---- MODULE Spec2Model ----
(***************************************************************************)
(* Model of KubaGame.py: the 7x7 Kuba board, the two Player records, the   *)
(* move validator, the push routine (_move_marble) and the win evaluation. *)
(*                                                                         *)
(* Conventions.                                                            *)
(*  - Python's None is the string "None".                                  *)
(*  - A coordinate tuple (row, col) is <<row, col>>, so coordinates[0] of  *)
(*    the source is coordinates[1] here and coordinates[1] is              *)
(*    coordinates[2].                                                      *)
(*  - The board is a function row -> (column -> marble) over 0..6, read    *)
(*    with Python's list indexing: an index in -7..-1 addresses the list   *)
(*    from its end, any other index outside 0..6 raises IndexError.        *)
(*  - A method that can touch the object returns a record holding the      *)
(*    object after the call (self) and the returned value (ret); ret is    *)
(*    "True", "False", or "IndexError" when the call raises.               *)
(***************************************************************************)
EXTENDS Integers, Sequences, FiniteSets, TLC

\* Number of freely chosen successful moves explored from the fresh game.
MaxMoves == 3
\* Number of freely chosen successful moves explored after a replayed opening.
MaxFree == 2
\* Number of successful moves explored when the caller passes any coordinates.
MaxAnywhere == 1

None == "None"
PlayerNames == {"PlayerA", "PlayerB"}
Directions == {"F", "B", "L", "R"}
Marbles == {"X", "W", "B", "R"}
Index == 0..6
Coordinates == Index \X Index

(***************************************************************************)
(* Player                                                                  *)
(***************************************************************************)
Player(player_tuple) ==
    [name |-> player_tuple[1], color |-> player_tuple[2], captured_red_marbles |-> 0]

get_color(player) == player.color

get_captured_red_marbles(player) == player.captured_red_marbles

\* increment_captured_red_marbles adding 2.
increment_captured_red_marbles_by_two(player) ==
    [player EXCEPT !.captured_red_marbles = @ + 2]

increment_captured_red_marbles(player) ==
    [player EXCEPT !.captured_red_marbles = @ + 1]

(***************************************************************************)
(* Python list indexing on a list of length 7                              *)
(***************************************************************************)
InRange(i) == i >= -7 /\ i <= 6

PyIndex(i) == IF i < 0 THEN i + 7 ELSE i

(***************************************************************************)
(* KubaGame.__init__                                                       *)
(***************************************************************************)
red_coordinates ==
    { <<1, 3>>, <<2, 2>>, <<2, 3>>, <<2, 4>>, <<3, 1>>, <<3, 2>>, <<3, 3>>,
      <<3, 4>>, <<3, 5>>, <<4, 2>>, <<4, 3>>, <<4, 4>>, <<5, 3>> }

InitialBoard ==
    [row \in Index |-> [column \in Index |->
        IF <<row, column>> \in red_coordinates THEN "R"
        ELSE IF \E i \in 0..1, j \in 0..1 :
                    \/ (row = i + 5 /\ column = j)
                    \/ (row = i /\ column = j + 5) THEN "B"
        ELSE IF \E i \in 0..1, j \in 0..1 :
                    \/ (row = i /\ column = j)
                    \/ (row = 6 - i /\ column = 6 - j) THEN "W"
        ELSE "X"]]

\* __init__ that gives the first turn to player1.
KubaGame_player1_opens(player1, player2) ==
    [players |-> (player1[1] :> Player(player1)) @@ (player2[1] :> Player(player2)),
     game_winner |-> None,
     current_turn |-> player1[1],
     game_board |-> InitialBoard]

KubaGame(player1, player2) ==
    [players |-> (player1[1] :> Player(player1)) @@ (player2[1] :> Player(player2)),
     game_winner |-> None,
     current_turn |-> None,
     game_board |-> InitialBoard]

main == KubaGame(<<"PlayerA", "W">>, <<"PlayerB", "B">>)

(***************************************************************************)
(* Accessors                                                               *)
(***************************************************************************)
\* A list index outside -7..6 raises IndexError; -7..-1 count from the end.
get_marble(self, coordinates) ==
    IF InRange(coordinates[1]) /\ InRange(coordinates[2])
    THEN self.game_board[PyIndex(coordinates[1])][PyIndex(coordinates[2])]
    ELSE "IndexError"

CountOf(board, marble) ==
    Cardinality({co \in Coordinates : board[co[1]][co[2]] = marble})

\* (white, black, red)
get_marble_count(self) ==
    <<CountOf(self.game_board, "W"), CountOf(self.game_board, "B"),
      CountOf(self.game_board, "R")>>

\* _get_other_playername with the test written "key == playername".
get_other_playername_same(self, playername) ==
    CHOOSE key \in DOMAIN self.players : key = playername

get_other_playername(self, playername) ==
    CHOOSE key \in DOMAIN self.players : key # playername

(***************************************************************************)
(* KubaGame._move_marble                                                   *)
(*                                                                         *)
(* The four direction branches differ only in which of row/column is       *)
(* stepped, by how much, and at which value of it a marble falls off.      *)
(***************************************************************************)
NextRow(direction, row) ==
    IF direction = "F" THEN row - 1
    ELSE IF direction = "B" THEN row + 1
    ELSE row

\* The column step with the signs of 'L' and 'R' exchanged.
NextColumn_swapped(direction, column) ==
    IF direction = "F" \/ direction = "B" THEN column
    ELSE IF direction = "L" THEN column + 1
    ELSE column - 1

NextColumn(direction, column) ==
    IF direction = "F" \/ direction = "B" THEN column
    ELSE IF direction = "L" THEN column - 1
    ELSE column + 1

\* The test that guards the capture: row == 0, row == 6, column == 0, column == 6.
AtEdge(direction, row, column) ==
    IF direction = "F" THEN row = 0
    ELSE IF direction = "B" THEN row = 6
    ELSE IF direction = "L" THEN column = 0
    ELSE column = 6

\* The capture statement with the wrong test: every marble pushed off is counted.
CreditAnyMarble(players, playername, marble) ==
    IF marble # "X" /\ playername # None
    THEN [players EXCEPT ![playername] = increment_captured_red_marbles(@)]
    ELSE players

\* if current_marble == "R" and playername is not None: increment
Credit(players, playername, marble) ==
    IF marble = "R" /\ playername # None
    THEN [players EXCEPT ![playername] = increment_captured_red_marbles(@)]
    ELSE players

(* One "while current_marble != 'X'" loop. Yields the board and the players
   after the loop, raised = TRUE when an index left -7..6 (the board is then
   as the loop left it), and expelled, the marble the loop dropped at the
   edge ("X" when it dropped none). *)
RECURSIVE PushLoop(_, _, _, _, _, _, _)
PushLoop(players, playername, direction, board, row, column, current_marble) ==
    IF current_marble = "X"
    THEN [board |-> board, players |-> players, raised |-> FALSE, expelled |-> "X"]
    ELSE LET r == NextRow(direction, row)
             c == NextColumn(direction, column)
         IN  IF ~(InRange(r) /\ InRange(c))
             THEN [board |-> board, players |-> players, raised |-> TRUE,
                   expelled |-> "X"]
             ELSE LET previous_marble == current_marble
                      found == board[PyIndex(r)][PyIndex(c)]
                      written == [board EXCEPT ![PyIndex(r)][PyIndex(c)] = previous_marble]
                  IN  IF AtEdge(direction, r, c) /\ found # "X"
                      THEN [board |-> written,
                            players |-> Credit(players, playername, found),
                            raised |-> FALSE, expelled |-> found]
                      ELSE PushLoop(players, playername, direction, written, r, c, found)

(* What _move_marble leaves behind once its loop has ended: the loop wrote
   into self._game_board when live, into the caller's board otherwise. *)
MoveMarbleEnd(self, live, loop) ==
    [self |-> [self EXCEPT !.players = loop.players,
                           !.game_board = IF live THEN loop.board ELSE @],
     ret |-> loop.board, raised |-> loop.raised, expelled |-> loop.expelled]

\* _move_marble without "board[row][column] = 'X'": the origin keeps its marble.
move_marble_keeps_origin(self, playername, coordinates, direction, board) ==
    LET live == (board = <<>>)
        start == IF live THEN self.game_board ELSE board[1]
        row == coordinates[1]
        column == coordinates[2]
    IN  MoveMarbleEnd(self, live,
            PushLoop(self.players, playername, direction, start, row, column,
                     start[PyIndex(row)][PyIndex(column)]))

(* board is <<>> for the source's None (the move is made on self._game_board)
   and <<b>> for a board b of the caller's. ret is the board moved on. *)
move_marble(self, playername, coordinates, direction, board) ==
    LET live == (board = <<>>)
        start == IF live THEN self.game_board ELSE board[1]
        row == coordinates[1]
        column == coordinates[2]
    IN  MoveMarbleEnd(self, live,
            PushLoop(self.players, playername, direction,
                     [start EXCEPT ![PyIndex(row)][PyIndex(column)] = "X"],
                     row, column, start[PyIndex(row)][PyIndex(column)]))

(***************************************************************************)
(* KubaGame._check_open_marble                                             *)
(***************************************************************************)
\* _check_open_marble looking at the cell ahead of the marble instead of behind it.
check_open_marble_ahead(self, coordinates, direction) ==
    LET blocking_spot ==
            IF direction = "F" THEN <<coordinates[1] - 1, coordinates[2]>>
            ELSE IF direction = "B" THEN <<coordinates[1] + 1, coordinates[2]>>
            ELSE IF direction = "L" THEN <<coordinates[1], coordinates[2] - 1>>
            ELSE <<coordinates[1], coordinates[2] + 1>>
    IN  IF \E k \in 1..2 : blocking_spot[k] < 0 \/ blocking_spot[k] > 6
        THEN "True"
        ELSE IF get_marble(self, blocking_spot) = "X" THEN "True" ELSE "False"

check_open_marble(self, coordinates, direction) ==
    LET blocking_spot ==
            IF direction = "F" THEN <<coordinates[1] + 1, coordinates[2]>>
            ELSE IF direction = "B" THEN <<coordinates[1] - 1, coordinates[2]>>
            ELSE IF direction = "L" THEN <<coordinates[1], coordinates[2] + 1>>
            ELSE <<coordinates[1], coordinates[2] - 1>>
    IN  IF \E k \in 1..2 : blocking_spot[k] < 0 \/ blocking_spot[k] > 6
        THEN "True"
        ELSE IF get_marble(self, blocking_spot) = "X" THEN "True" ELSE "False"

(***************************************************************************)
(* KubaGame._check_ko_rule                                                 *)
(***************************************************************************)
(* The comparison loop, on the outcome of the trial push. row_index is
   incremented after the outer loop (line 295), so every row of the pushed
   copy is compared with row 0 of the live board. *)
KoCompare(moved) ==
    IF moved.raised
    THEN [self |-> moved.self, ret |-> "IndexError"]
    ELSE [self |-> moved.self,
          ret |-> IF \E row \in Index, col_index \in Index :
                        moved.ret[row][col_index] # get_marble(moved.self, <<0, col_index>>)
                  THEN "True" ELSE "False"]

\* previous_board is the deepcopy of the live board, pushed with playername None.
check_ko_rule(self, coordinates, direction) ==
    KoCompare(move_marble(self, None, coordinates, direction, <<self.game_board>>))

(***************************************************************************)
(* KubaGame._check_selfdefeating_rule                                      *)
(***************************************************************************)
RECURSIVE SelfDefeatingLoop(_, _, _, _, _, _)
\* The edge test comparing the marble being carried instead of the one found there.
SelfDefeatingLoop_carried(player_marble_color, direction, board, row, column, current_marble) ==
    IF current_marble = "X"
    THEN "True"
    ELSE LET r == NextRow(direction, row)
             c == NextColumn(direction, column)
         IN  IF ~(InRange(r) /\ InRange(c))
             THEN "IndexError"
             ELSE LET found == board[PyIndex(r)][PyIndex(c)]
                  IN  IF AtEdge(direction, r, c)
                      THEN (IF current_marble = player_marble_color THEN "False" ELSE "True")
                      ELSE SelfDefeatingLoop(player_marble_color, direction, board,
                                             r, c, found)

SelfDefeatingLoop(player_marble_color, direction, board, row, column, current_marble) ==
    IF current_marble = "X"
    THEN "True"
    ELSE LET r == NextRow(direction, row)
             c == NextColumn(direction, column)
         IN  IF ~(InRange(r) /\ InRange(c))
             THEN "IndexError"
             ELSE LET found == board[PyIndex(r)][PyIndex(c)]
                  IN  IF AtEdge(direction, r, c)
                      THEN (IF found = player_marble_color THEN "False" ELSE "True")
                      ELSE SelfDefeatingLoop(player_marble_color, direction, board,
                                             r, c, found)

\* _validate_move's last check missing: every push is taken as not self-defeating.
check_selfdefeating_rule_absent(self, playername, coordinates, direction) ==
    "True"

check_selfdefeating_rule(self, playername, coordinates, direction) ==
    LET player_marble_color == get_color(self.players[playername])
        row == coordinates[1]
        column == coordinates[2]
        current_marble == self.game_board[PyIndex(row)][PyIndex(column)]
    IN  SelfDefeatingLoop(player_marble_color, direction, self.game_board, row, column,
                          current_marble)

(***************************************************************************)
(* KubaGame._validate_move                                                 *)
(***************************************************************************)
\* The last check of _validate_move, on the outcome ko of the Ko check.
ValidateAfterKo(ko, playername, coordinates, direction) ==
    IF ko.ret # "True"
    THEN ko
    ELSE [self |-> ko.self,
          ret |-> check_selfdefeating_rule(ko.self, playername, coordinates, direction)]

\* _validate_move without the "is it the player's turn" check.
validate_move_ignores_turn(self, playername, coordinates, direction) ==
    IF self.game_winner # None
    THEN [self |-> self, ret |-> "False"]
    ELSE IF get_marble(self, coordinates) = "IndexError"
    THEN [self |-> self, ret |-> "IndexError"]
    ELSE IF get_color(self.players[playername]) # get_marble(self, coordinates)
    THEN [self |-> self, ret |-> "False"]
    ELSE IF check_open_marble(self, coordinates, direction) # "True"
    THEN [self |-> self, ret |-> "False"]
    ELSE ValidateAfterKo(check_ko_rule(self, coordinates, direction),
                         playername, coordinates, direction)

\* _validate_move without the check of the colour of the selected marble.
validate_move_ignores_owner(self, playername, coordinates, direction) ==
    IF ~(playername = self.current_turn \/ self.current_turn = None)
    THEN [self |-> self, ret |-> "False"]
    ELSE IF self.game_winner # None
    THEN [self |-> self, ret |-> "False"]
    ELSE IF check_open_marble(self, coordinates, direction) # "True"
    THEN [self |-> self, ret |-> "False"]
    ELSE ValidateAfterKo(check_ko_rule(self, coordinates, direction),
                         playername, coordinates, direction)

\* _validate_move without the "there is already a winner" check.
validate_move_ignores_winner(self, playername, coordinates, direction) ==
    IF ~(playername = self.current_turn \/ self.current_turn = None)
    THEN [self |-> self, ret |-> "False"]
    ELSE IF get_marble(self, coordinates) = "IndexError"
    THEN [self |-> self, ret |-> "IndexError"]
    ELSE IF get_color(self.players[playername]) # get_marble(self, coordinates)
    THEN [self |-> self, ret |-> "False"]
    ELSE IF check_open_marble(self, coordinates, direction) # "True"
    THEN [self |-> self, ret |-> "False"]
    ELSE ValidateAfterKo(check_ko_rule(self, coordinates, direction),
                         playername, coordinates, direction)

validate_move(self, playername, coordinates, direction) ==
    IF ~(playername = self.current_turn \/ self.current_turn = None)
    THEN [self |-> self, ret |-> "False"]
    ELSE IF self.game_winner # None
    THEN [self |-> self, ret |-> "False"]
    ELSE IF get_marble(self, coordinates) = "IndexError"
    THEN [self |-> self, ret |-> "IndexError"]
    ELSE IF get_color(self.players[playername]) # get_marble(self, coordinates)
    THEN [self |-> self, ret |-> "False"]
    ELSE IF check_open_marble(self, coordinates, direction) # "True"
    THEN [self |-> self, ret |-> "False"]
    ELSE ValidateAfterKo(check_ko_rule(self, coordinates, direction),
                         playername, coordinates, direction)

(***************************************************************************)
(* KubaGame._check_all_moves_blocked                                       *)
(***************************************************************************)
possible_directions == <<"F", "B", "L", "R">>

(* The three nested loops, flattened: step k in 0..195 is row k \div 28,
   column (k % 28) \div 4 and direction (k % 4) + 1 of possible_directions.
   AllMovesBlockedStep is the body of the innermost loop, on the outcome v
   of its _validate_move. *)
RECURSIVE AllMovesBlockedLoop(_, _, _, _)
RECURSIVE AllMovesBlockedStep(_, _, _, _)
AllMovesBlockedStep(v, playername, marble_color, k) ==
    IF v.ret = "True" THEN [self |-> v.self, ret |-> "False"]
    ELSE IF v.ret = "IndexError" THEN v
    ELSE AllMovesBlockedLoop(v.self, playername, marble_color, k + 1)

AllMovesBlockedLoop(self, playername, marble_color, k) ==
    IF k >= 7 * 7 * 4
    THEN [self |-> self, ret |-> "True"]
    ELSE IF self.game_board[k \div 28][(k % 28) \div 4] # marble_color
    THEN AllMovesBlockedLoop(self, playername, marble_color, k + 1)
    ELSE AllMovesBlockedStep(
             validate_move(self, playername, <<k \div 28, (k % 28) \div 4>>,
                           possible_directions[(k % 4) + 1]),
             playername, marble_color, k)

check_all_moves_blocked(self, playername) ==
    AllMovesBlockedLoop(self, get_other_playername(self, playername),
                        get_color(self.players[get_other_playername(self, playername)]), 0)

(***************************************************************************)
(* KubaGame._check_for_winner                                              *)
(***************************************************************************)
\* _check_for_winner with the capture test written "> 5".
check_for_winner_at_six(self, playername) ==
    IF get_captured_red_marbles(self.players[playername]) > 5
    THEN [self |-> self, ret |-> "True"]
    ELSE IF get_color(self.players[playername]) = "B" /\ get_marble_count(self)[1] < 1
    THEN [self |-> self, ret |-> "True"]
    ELSE IF get_color(self.players[playername]) # "B" /\ get_marble_count(self)[2] < 1
    THEN [self |-> self, ret |-> "True"]
    ELSE check_all_moves_blocked(self, playername)

\* _check_for_winner with the capture test written "> 7".
check_for_winner_at_eight(self, playername) ==
    IF get_captured_red_marbles(self.players[playername]) > 7
    THEN [self |-> self, ret |-> "True"]
    ELSE IF get_color(self.players[playername]) = "B" /\ get_marble_count(self)[1] < 1
    THEN [self |-> self, ret |-> "True"]
    ELSE IF get_color(self.players[playername]) # "B" /\ get_marble_count(self)[2] < 1
    THEN [self |-> self, ret |-> "True"]
    ELSE check_all_moves_blocked(self, playername)

check_for_winner(self, playername) ==
    IF get_captured_red_marbles(self.players[playername]) > 6
    THEN [self |-> self, ret |-> "True"]
    ELSE IF get_color(self.players[playername]) = "B" /\ get_marble_count(self)[1] < 1
    THEN [self |-> self, ret |-> "True"]
    ELSE IF get_color(self.players[playername]) # "B" /\ get_marble_count(self)[2] < 1
    THEN [self |-> self, ret |-> "True"]
    ELSE check_all_moves_blocked(self, playername)

(***************************************************************************)
(* KubaGame.make_move                                                      *)
(*                                                                         *)
(* expelled is the marble the committed push dropped off the board ("X"    *)
(* when none, or when no push was committed).                              *)
(***************************************************************************)
\* Lines 133-136 without the assignment to _game_winner.
MakeMoveJudged_no_winner(won, playername, dropped) ==
    IF won.ret = "IndexError"
    THEN [self |-> won.self, ret |-> "IndexError", expelled |-> dropped]
    ELSE [self |-> won.self, ret |-> "True", expelled |-> dropped]

\* Lines 133-136, on the outcome won of _check_for_winner.
MakeMoveJudged(won, playername, dropped) ==
    IF won.ret = "IndexError"
    THEN [self |-> won.self, ret |-> "IndexError", expelled |-> dropped]
    ELSE [self |-> IF won.ret = "True"
                   THEN [won.self EXCEPT !.game_winner = playername]
                   ELSE won.self,
          ret |-> "True", expelled |-> dropped]

\* Lines 130-136, on the outcome moved of the push on the live board.
MakeMovePushed(moved, playername) ==
    IF moved.raised
    THEN [self |-> moved.self, ret |-> "IndexError", expelled |-> moved.expelled]
    ELSE MakeMoveJudged(
             check_for_winner(
                 [moved.self EXCEPT
                     !.current_turn = get_other_playername(moved.self, playername)],
                 playername),
             playername, moved.expelled)

\* The "if" of line 126 with the turn update moved out of it: a refused move turns too.
MakeMoveValidatedAlwaysTurns(v, playername, coordinates, direction) ==
    IF v.ret # "True"
    THEN [self |-> [v.self EXCEPT
                       !.current_turn = get_other_playername(v.self, playername)],
          ret |-> v.ret, expelled |-> "X"]
    ELSE MakeMovePushed(move_marble(v.self, playername, coordinates, direction, <<>>),
                        playername)

\* The "if" of line 126, on the outcome v of _validate_move.
MakeMoveValidated(v, playername, coordinates, direction) ==
    IF v.ret # "True"
    THEN [self |-> v.self, ret |-> v.ret, expelled |-> "X"]
    ELSE MakeMovePushed(move_marble(v.self, playername, coordinates, direction, <<>>),
                        playername)

make_move(self, playername, coordinates, direction) ==
    MakeMoveValidated(validate_move(self, playername, coordinates, direction),
                      playername, coordinates, direction)

(***************************************************************************)
(* The game object and its caller                                          *)
(***************************************************************************)
VARIABLES
    game_board,      \* self._game_board
    players,         \* self._players
    current_turn,    \* self._current_turn
    game_winner,     \* self._game_winner
    pc,              \* "idle": no call in progress; "returned": make_move has just ended
    call,            \* the arguments of the make_move that has just ended, and
                     \* whether the caller took them from the opening
    ret,             \* how it ended: "True", "False" or "IndexError"
    expelled,        \* the marble its push dropped off the board, "X" when none
    pre,             \* the game as it was when that make_move was called
    prior,           \* <<board before the most recent successful move>>, <<>> when none
    script,          \* the opening still to be replayed by the caller
    budget           \* the successful moves the caller may still choose freely

game == <<game_board, players, current_turn, game_winner>>
vars == <<game_board, players, current_turn, game_winner, pc, call, ret, expelled, pre,
          prior, script, budget>>

Self ==
    [players |-> players, game_winner |-> game_winner, current_turn |-> current_turn,
     game_board |-> game_board]

NoCall ==
    [playername |-> None, coordinates |-> <<0, 0>>, direction |-> None, replayed |-> FALSE]

(* Openings the caller replays move by move before choosing freely: every
   move of an opening is accepted by make_move (OpeningAccepted).
   KoOpening brings a white and a black run of row 1 next to each other;
   CaptureOpening gives PlayerA six red marbles; EliminationOpening leaves
   PlayerB one marble. *)
KoOpening ==
    << <<"PlayerA", <<1, 0>>, "R">>, <<"PlayerB", <<1, 6>>, "L">> >>

CaptureOpening ==
    << <<"PlayerA", <<0, 0>>, "B">>, <<"PlayerB", <<0, 5>>, "B">>,
       <<"PlayerA", <<0, 1>>, "B">>, <<"PlayerB", <<0, 6>>, "B">>,
       <<"PlayerA", <<1, 0>>, "B">>, <<"PlayerB", <<1, 6>>, "B">>,
       <<"PlayerA", <<3, 0>>, "R">>, <<"PlayerB", <<1, 5>>, "L">>,
       <<"PlayerA", <<3, 1>>, "R">>, <<"PlayerB", <<1, 4>>, "B">>,
       <<"PlayerA", <<3, 2>>, "R">>, <<"PlayerB", <<2, 4>>, "B">>,
       <<"PlayerA", <<3, 3>>, "R">>, <<"PlayerB", <<2, 5>>, "B">>,
       <<"PlayerA", <<3, 4>>, "R">>, <<"PlayerB", <<3, 6>>, "L">>,
       <<"PlayerA", <<3, 4>>, "B">>, <<"PlayerB", <<2, 6>>, "F">>,
       <<"PlayerA", <<4, 4>>, "B">>, <<"PlayerB", <<1, 6>>, "F">> >>

EliminationOpening ==
    << <<"PlayerA", <<5, 6>>, "L">>, <<"PlayerB", <<6, 0>>, "R">>,
       <<"PlayerA", <<5, 5>>, "L">>, <<"PlayerB", <<6, 2>>, "F">>,
       <<"PlayerA", <<5, 4>>, "L">>, <<"PlayerB", <<0, 6>>, "L">>,
       <<"PlayerA", <<5, 3>>, "L">>, <<"PlayerB", <<0, 4>>, "B">>,
       <<"PlayerA", <<1, 0>>, "R">>, <<"PlayerB", <<5, 0>>, "F">>,
       <<"PlayerA", <<1, 1>>, "R">>, <<"PlayerB", <<0, 5>>, "R">>,
       <<"PlayerA", <<1, 2>>, "R">>, <<"PlayerB", <<4, 0>>, "B">>,
       <<"PlayerA", <<5, 2>>, "L">>, <<"PlayerB", <<6, 1>>, "L">>,
       <<"PlayerA", <<5, 0>>, "B">>, <<"PlayerB", <<0, 6>>, "B">> >>

Openings == {KoOpening, CaptureOpening, EliminationOpening}

Init ==
    /\ game_board = main.game_board
    /\ players = main.players
    /\ current_turn = main.current_turn
    /\ game_winner = main.game_winner
    /\ pc = "idle"
    /\ call = NoCall
    /\ ret = None
    /\ expelled = "X"
    /\ pre = [self |-> main, prior |-> <<>>]
    /\ prior = <<>>
    /\ \/ script = <<>> /\ budget = MaxMoves
       \/ script \in Openings /\ budget = MaxFree

\* The game and the caller's record of the call once make_move has ended as done.
Ended(done) ==
    /\ game_board' = done.self.game_board
    /\ players' = done.self.players
    /\ current_turn' = done.self.current_turn
    /\ game_winner' = done.self.game_winner
    /\ ret' = done.ret
    /\ expelled' = done.expelled
    /\ prior' = IF done.ret = "True" THEN <<game_board>> ELSE prior
    /\ budget' = IF script = <<>> /\ done.ret = "True" THEN budget - 1 ELSE budget

\* game.make_move(playername, coordinates, direction), from call to return or raise.
MakeMove(playername, coordinates, direction) ==
    /\ pc = "idle"
    /\ IF script # <<>>
       THEN <<playername, coordinates, direction>> = Head(script)
       ELSE budget > 0
    /\ Ended(make_move(Self, playername, coordinates, direction))
    /\ call' = [playername |-> playername, coordinates |-> coordinates,
                direction |-> direction, replayed |-> script # <<>>]
    /\ pre' = [self |-> Self, prior |-> prior]
    /\ script' = IF script # <<>> THEN Tail(script) ELSE script
    /\ pc' = "returned"

\* The caller has the outcome of the call and is free to call again.
Return ==
    /\ pc = "returned"
    /\ pc' = "idle"
    /\ call' = NoCall
    /\ ret' = None
    /\ expelled' = "X"
    /\ pre' = [self |-> Self, prior |-> prior]
    /\ UNCHANGED <<game_board, players, current_turn, game_winner, prior, script, budget>>

Next ==
    \/ \E playername \in PlayerNames, coordinates \in Coordinates,
          direction \in Directions : MakeMove(playername, coordinates, direction)
    \/ Return

Spec == Init /\ [][Next]_vars

(* A caller that passes any pair of integers as coordinates, to make_move
   and to get_marble: -8 and 7 are the nearest values no list index accepts. *)
AnyIndex == -8..7
AnyCoordinates == AnyIndex \X AnyIndex

InitAnywhere ==
    /\ game_board = main.game_board
    /\ players = main.players
    /\ current_turn = main.current_turn
    /\ game_winner = main.game_winner
    /\ pc = "idle"
    /\ call = NoCall
    /\ ret = None
    /\ expelled = "X"
    /\ pre = [self |-> main, prior |-> <<>>]
    /\ prior = <<>>
    /\ script = <<>>
    /\ budget = MaxAnywhere

\* game.get_marble(coordinates), from call to return or raise.
GetMarble(coordinates) ==
    /\ pc = "idle"
    /\ ret' = get_marble(Self, coordinates)
    /\ call' = [playername |-> None, coordinates |-> coordinates, direction |-> None,
                replayed |-> FALSE]
    /\ pre' = [self |-> Self, prior |-> prior]
    /\ pc' = "returned"
    /\ UNCHANGED <<game_board, players, current_turn, game_winner, expelled, prior,
                   script, budget>>

NextAnywhere ==
    \/ \E playername \in PlayerNames, coordinates \in AnyCoordinates,
          direction \in Directions : MakeMove(playername, coordinates, direction)
    \/ \E coordinates \in AnyCoordinates : GetMarble(coordinates)
    \/ Return

SpecAnywhere == InitAnywhere /\ [][NextAnywhere]_vars

TypeOK ==
    /\ game_board \in [Index -> [Index -> Marbles]]
    /\ current_turn \in PlayerNames \cup {None}
    /\ game_winner \in PlayerNames \cup {None}
    /\ pc \in {"idle", "returned"}
    /\ ret \in {None, "True", "False", "IndexError"} \cup Marbles
    /\ expelled \in Marbles
    /\ budget \in 0..(MaxMoves + MaxFree + MaxAnywhere)

\* Every move of a replayed opening is one make_move accepts.
OpeningAccepted == (pc = "returned" /\ call.replayed) => ret = "True"

(***************************************************************************)
(* Vocabulary of the properties                                            *)
(***************************************************************************)
Returned == pc = "returned"
Mover == call.playername
NonMover == CHOOSE q \in PlayerNames : q # call.playername
Captured(self, playername) == self.players[playername].captured_red_marbles
ColorOf(playername) == main.players[playername].color
TotalMarbles(board) == CountOf(board, "W") + CountOf(board, "B") + CountOf(board, "R")
OnBoard(row, column) == row \in Index /\ column \in Index

(* The marble a push from coordinates in direction sends over the edge of
   the board: the last marble of the unbroken run of marbles that starts at
   coordinates and goes in direction, when that run ends at the edge; "X"
   when the run ends before an empty cell, or there is no marble to push. *)
RECURSIVE RunExpels(_, _, _, _)
RunExpels(board, row, column, direction) ==
    IF board[row][column] = "X" THEN "X"
    ELSE LET r == NextRow(direction, row)
             c == NextColumn(direction, column)
         IN  IF ~OnBoard(r, c) THEN board[row][column]
             ELSE IF board[r][c] = "X" THEN "X"
             ELSE RunExpels(board, r, c, direction)

(***************************************************************************)
(* C1. A make_move that returns False leaves the board, both capture       *)
(* counters, the current turn and the winner as they were, and the same    *)
(* call made again returns False again and again changes nothing.          *)
(***************************************************************************)
RejectedMoveChangesNothing ==
    (Returned /\ ret = "False") =>
        /\ Self = pre.self
        /\ LET again == make_move(Self, call.playername, call.coordinates, call.direction)
           IN  again.ret = "False" /\ again.self = pre.self

\* A move rejected after its trial push: it is the mover's turn and marble, the
\* marble is open, and only the self-elimination check refuses it.
RejectedAfterTrialPush ==
    /\ Returned /\ ret = "False"
    /\ pre.self.game_winner = None
    /\ pre.self.current_turn \in {None, Mover}
    /\ get_marble(pre.self, call.coordinates) = ColorOf(Mover)
    /\ check_open_marble(pre.self, call.coordinates, call.direction) = "True"
    /\ game_board = pre.self.game_board

(***************************************************************************)
(* C2. After a make_move that returns True the current turn is the player  *)
(* who did not move, and the mover was the player whose turn it was (or    *)
(* nobody's turn yet); after one that returns False the turn is unchanged. *)
(***************************************************************************)
TurnAlternation ==
    Returned =>
        /\ ret = "True" =>
              /\ current_turn = NonMover
              /\ current_turn # Mover
              /\ pre.self.current_turn \in {None, Mover}
        /\ ret = "False" => current_turn = pre.self.current_turn

\* A successful move by the player whose turn it was hands the turn over.
TurnHandedOver ==
    /\ Returned /\ ret = "True"
    /\ pre.self.current_turn = Mover
    /\ current_turn = NonMover

(***************************************************************************)
(* C3. A push that would send a marble of the mover's own colour over the  *)
(* edge is rejected: make_move returns False and changes nothing. That     *)
(* covers the origin marble sitting on the edge it is pushed toward.       *)
(***************************************************************************)
SelfEliminationRejected ==
    (Returned /\ RunExpels(pre.self.game_board, call.coordinates[1], call.coordinates[2],
                           call.direction) = ColorOf(Mover)) =>
        (ret = "False" /\ Self = pre.self)

(***************************************************************************)
(* C4. When the latest successful move changed the board from B0 to B1, a  *)
(* move that would turn B1 back into B0 is rejected: no successful move    *)
(* ends on the board as it was before the move preceding it.               *)
(***************************************************************************)
KoReversalRejected ==
    (Returned /\ ret = "True" /\ pre.prior # <<>>) => game_board # pre.prior[1]

(***************************************************************************)
(* C5. A successful make_move leaves one marble fewer on the board when    *)
(* its push dropped a marble over the edge and the same number otherwise;  *)
(* no call adds a marble or removes more than one.                         *)
(***************************************************************************)
MarbleConservation ==
    Returned =>
        /\ ret = "True" =>
              TotalMarbles(game_board) = TotalMarbles(pre.self.game_board)
                                            - (IF expelled # "X" THEN 1 ELSE 0)
        /\ TotalMarbles(game_board) <= TotalMarbles(pre.self.game_board)
        /\ TotalMarbles(game_board) >= TotalMarbles(pre.self.game_board) - 1

\* A successful push that dropped a marble: the board holds one marble fewer.
MarbleDropped ==
    /\ Returned /\ ret = "True" /\ expelled # "X"
    /\ TotalMarbles(game_board) = TotalMarbles(pre.self.game_board) - 1

(***************************************************************************)
(* C6. A successful make_move that raises the mover's capture counter to 7 *)
(* sets the winner to the mover in that call, and no capture counter ever  *)
(* exceeds 7.                                                              *)
(***************************************************************************)
WinOnSeventhCapture ==
    /\ (Returned /\ ret = "True" /\ Captured(Self, Mover) = 7) => game_winner = Mover
    /\ \A playername \in PlayerNames : Captured(Self, playername) <= 7

\* The move that takes the mover from six captures to seven.
SeventhCapture ==
    /\ Returned /\ ret = "True"
    /\ Captured(pre.self, Mover) = 6
    /\ Captured(Self, Mover) = 7
    /\ game_winner = Mover

(***************************************************************************)
(* C7. Once there is a winner, every make_move returns False and the       *)
(* winner, the board, the capture counters and the turn stay as they are.  *)
(***************************************************************************)
GameOverAbsorbing ==
    /\ (Returned /\ pre.self.game_winner # None) => (ret = "False" /\ Self = pre.self)
    /\ pre.self.game_winner # None => game_winner = pre.self.game_winner

\* After the game is won, the player to move pushes an open marble of their own.
MoveAfterGameOver ==
    /\ Returned /\ ret = "False"
    /\ pre.self.game_winner # None
    /\ pre.self.current_turn = Mover
    /\ get_marble(pre.self, call.coordinates) = ColorOf(Mover)
    /\ check_open_marble(pre.self, call.coordinates, call.direction) = "True"

(***************************************************************************)
(* C8. After a successful make_move by P with opponent Q the winner is P   *)
(* exactly when P has at least 7 captures, or the board holds no marble of *)
(* Q's colour, or the validator accepts no move of Q from any cell of Q's  *)
(* colour in any direction; otherwise there is no winner. The winner is    *)
(* never Q.                                                                *)
(***************************************************************************)
NoMoveAccepted(self, playername) ==
    \A coordinates \in Coordinates, direction \in Directions :
        get_marble(self, coordinates) = ColorOf(playername) =>
            validate_move(self, playername, coordinates, direction).ret # "True"

CaptureBookkeeping ==
    Returned =>
        /\ ret = "True" =>
              Captured(Self, Mover) = Captured(pre.self, Mover)
                                         + (IF expelled = "R" THEN 1 ELSE 0)
        /\ ret # "True" => Captured(Self, Mover) = Captured(pre.self, Mover)
        /\ Captured(Self, NonMover) = Captured(pre.self, NonMover)

\* A successful push that dropped a red marble and was credited with it.
RedCaptured ==
    /\ Returned /\ ret = "True" /\ expelled = "R"
    /\ Captured(Self, Mover) = Captured(pre.self, Mover) + 1

(***************************************************************************)
(* C10. Until the first successful move the game is as constructed: White  *)
(* and Black on their eight corner cells each, Red on its 13 centre cells, *)
(* every other cell empty, the marble count (8, 8, 13), no current turn,   *)
(* no winner and both capture counters 0.                                  *)
(***************************************************************************)
WhiteCells ==
    { <<0, 0>>, <<0, 1>>, <<1, 0>>, <<1, 1>>, <<5, 5>>, <<5, 6>>, <<6, 5>>, <<6, 6>> }

BlackCells ==
    { <<5, 0>>, <<5, 1>>, <<6, 0>>, <<6, 1>>, <<0, 5>>, <<0, 6>>, <<1, 5>>, <<1, 6>> }

RedCells ==
    { <<1, 3>>, <<2, 2>>, <<2, 3>>, <<2, 4>>, <<3, 1>>, <<3, 2>>, <<3, 3>>, <<3, 4>>,
      <<3, 5>>, <<4, 2>>, <<4, 3>>, <<4, 4>>, <<5, 3>> }

InitialState ==
    prior = <<>> =>
        /\ \A co \in Coordinates :
              get_marble(Self, co) = IF co \in WhiteCells THEN "W"
                                     ELSE IF co \in BlackCells THEN "B"
                                     ELSE IF co \in RedCells THEN "R"
                                     ELSE "X"
        /\ get_marble_count(Self) = <<8, 8, 13>>
        /\ current_turn = None
        /\ game_winner = None
        /\ \A playername \in PlayerNames : Captured(Self, playername) = 0

\* The game right after construction, before any call.
FreshGame ==
    /\ pc = "idle" /\ prior = <<>> /\ ret = None
    /\ get_marble_count(Self) = <<8, 8, 13>>

(***************************************************************************)
(* C11. While there is no current turn either player's move is accepted    *)
(* when it is legal apart from the turn; after the first successful move   *)
(* the current turn is never None again, and from then on every make_move  *)
(* by the player whose turn it is not returns False.                       *)
(***************************************************************************)
OpeningAndTurnCheck ==
    /\ prior # <<>> => current_turn # None
    /\ Returned =>
          /\ pre.self.current_turn # None => current_turn # None
          /\ (pre.self.current_turn # None /\ Mover # pre.self.current_turn) =>
                 ret = "False"
          /\ (pre.self.current_turn = None
                /\ validate_move([pre.self EXCEPT !.current_turn = Mover], Mover,
                                 call.coordinates, call.direction).ret = "True") =>
                 ret = "True"

\* A move that is legal apart from the turn, made by the player whose turn it is not.
OutOfTurnMoveRefused ==
    /\ Returned /\ ret = "False"
    /\ pre.self.current_turn = NonMover
    /\ validate_move([pre.self EXCEPT !.current_turn = Mover], Mover,
                     call.coordinates, call.direction).ret = "True"

(***************************************************************************)
(* C12. make_move returns True only if the origin cell holds the mover's   *)
(* colour: a move whose origin is empty, red or the opponent's is refused. *)
(***************************************************************************)
OwnershipRequired ==
    Returned =>
        /\ ret = "True" => get_marble(pre.self, call.coordinates) = ColorOf(Mover)
        /\ get_marble(pre.self, call.coordinates) # ColorOf(Mover) =>
              (ret = "False" /\ Self = pre.self)

\* The player to move pushes an open marble of the opponent's and is refused.
OpponentMarbleRefused ==
    /\ Returned /\ ret = "False"
    /\ pre.self.game_winner = None
    /\ pre.self.current_turn = Mover
    /\ get_marble(pre.self, call.coordinates) = ColorOf(NonMover)
    /\ check_open_marble(pre.self, call.coordinates, call.direction) = "True"

(***************************************************************************)
(* C13. make_move returns True only if the cell next to the origin on the  *)
(* side opposite to the direction of travel is off the board or empty; if  *)
(* that cell is on the board and holds a marble the move is refused, and   *)
(* an origin with that cell off the board passes the openness check.       *)
(***************************************************************************)
BehindRow(coordinates, direction) == 2 * coordinates[1] - NextRow(direction, coordinates[1])
BehindColumn(coordinates, direction) ==
    2 * coordinates[2] - NextColumn(direction, coordinates[2])

BehindIsFree(board, coordinates, direction) ==
    \/ ~OnBoard(BehindRow(coordinates, direction), BehindColumn(coordinates, direction))
    \/ board[BehindRow(coordinates, direction)][BehindColumn(coordinates, direction)] = "X"

OpennessRequired ==
    Returned =>
        /\ ret = "True" => BehindIsFree(pre.self.game_board, call.coordinates, call.direction)
        /\ ~BehindIsFree(pre.self.game_board, call.coordinates, call.direction) =>
              (ret = "False" /\ Self = pre.self)
        /\ ~OnBoard(BehindRow(call.coordinates, call.direction),
                    BehindColumn(call.coordinates, call.direction)) =>
              check_open_marble(pre.self, call.coordinates, call.direction) = "True"

\* The player to move pushes a marble of their own with a marble behind it.
BlockedMarbleRefused ==
    /\ Returned /\ ret = "False"
    /\ pre.self.game_winner = None
    /\ pre.self.current_turn \in {None, Mover}
    /\ get_marble(pre.self, call.coordinates) = ColorOf(Mover)
    /\ ~BehindIsFree(pre.self.game_board, call.coordinates, call.direction)

(***************************************************************************)
(* C14. The direction codes are the unit vectors F=(-1,0), B=(+1,0),       *)
(* L=(0,-1), R=(0,+1) in (row, col): after a successful push from (r,c)    *)
(* whose neighbouring cell along that vector is on the board, the origin   *)
(* is empty and the mover's marble stands on that neighbouring cell.       *)
(***************************************************************************)
CodeVector(direction) ==
    IF direction = "F" THEN <<-1, 0>>
    ELSE IF direction = "B" THEN <<1, 0>>
    ELSE IF direction = "L" THEN <<0, -1>>
    ELSE <<0, 1>>

\* The mapping as the specification words it: 'L' increases the column.
SpecVector(direction) ==
    IF direction = "F" THEN <<-1, 0>>
    ELSE IF direction = "B" THEN <<1, 0>>
    ELSE IF direction = "L" THEN <<0, 1>>
    ELSE <<0, -1>>

MovedBy(vector) ==
    (Returned /\ ret = "True"
        /\ OnBoard(call.coordinates[1] + vector[1], call.coordinates[2] + vector[2])) =>
        /\ game_board[call.coordinates[1]][call.coordinates[2]] = "X"
        /\ game_board[call.coordinates[1] + vector[1]][call.coordinates[2] + vector[2]]
               = ColorOf(Mover)

DirectionMapping == MovedBy(CodeVector(call.direction))

\* A successful 'L' push, which leaves the marble one column lower.
PushedLeft ==
    /\ Returned /\ ret = "True" /\ call.direction = "L"
    /\ call.coordinates[2] >= 1
    /\ game_board[call.coordinates[1]][call.coordinates[2] - 1] = ColorOf(Mover)
    /\ game_board[call.coordinates[1]][call.coordinates[2]] = "X"

\* C14 as stated: 'L' moves the marble to (r,c+1) and 'R' to (r,c-1).
DirectionMappingAsStated == MovedBy(SpecVector(call.direction))

(***************************************************************************)
(* C15. get_marble, and make_move's origin, given a coordinate whose row   *)
(* or column is outside 0..6 (negative values included) fail with an       *)
(* out-of-bounds error: no cell value comes back and the game is as it     *)
(* was before the call.                                                    *)
(***************************************************************************)
OutOfBoundsFails ==
    (Returned /\ ~OnBoard(call.coordinates[1], call.coordinates[2])) =>
        (ret = "IndexError" /\ Self = pre.self)

(***************************************************************************)
(* C16. After a successful make_move from origin o in direction d, with    *)
(* the run being the unbroken line of marbles from o in d inside the       *)
(* board: o is empty, every marble of the run is one cell further in d,    *)
(* the last marble of the run is expelled exactly when the run reaches the *)
(* edge, and every other cell is as before; no marble comes back in on the *)
(* opposite edge.                                                          *)
(***************************************************************************)
RECURSIVE RunLength(_, _, _, _)
RunLength(board, row, column, vector) ==
    IF ~OnBoard(row, column) THEN 0
    ELSE IF board[row][column] = "X" THEN 0
    ELSE 1 + RunLength(board, row + vector[1], column + vector[2], vector)

\* The board the stated push makes of board, for a run of length from origin.
ShiftedRun(board, origin, vector, length) ==
    [row \in Index |-> [column \in Index |->
        IF <<row, column>> = origin THEN "X"
        ELSE IF \E k \in 1..length :
                    <<row, column>> = <<origin[1] + k * vector[1], origin[2] + k * vector[2]>>
        THEN board[row - vector[1]][column - vector[2]]
        ELSE board[row][column]]]

\* The marble the stated push expels: the last of a run that reaches the edge.
ShiftedOut(board, origin, vector, length) ==
    IF OnBoard(origin[1] + length * vector[1], origin[2] + length * vector[2])
    THEN "X"
    ELSE board[origin[1] + (length - 1) * vector[1]][origin[2] + (length - 1) * vector[2]]

PushedAsStated(board, origin, vector, length) ==
    /\ game_board = ShiftedRun(board, origin, vector, length)
    /\ expelled = ShiftedOut(board, origin, vector, length)

PushSemantics ==
    (Returned /\ ret = "True") =>
        PushedAsStated(pre.self.game_board, call.coordinates, CodeVector(call.direction),
                       RunLength(pre.self.game_board, call.coordinates[1],
                                 call.coordinates[2], CodeVector(call.direction)))

(***************************************************************************)
(* C17. Every make_move by a player of the game, from an origin with row   *)
(* and column in 0..6 and in one of the four directions, returns True or   *)
(* False: it never raises, also not from row 6 pushed 'B' or column 6      *)
(* pushed 'R' with an empty cell behind the marble.                        *)
(***************************************************************************)
MakeMoveTotal ==
    (Returned /\ OnBoard(call.coordinates[1], call.coordinates[2])) =>
        ret \in {"True", "False"}

(***************************************************************************)
(* C18. When the mover pushes a marble of their own whose neighbour in the *)
(* direction of travel is on the board and empty, and the move is legal    *)
(* otherwise (their turn, no winner, free behind), make_move returns True  *)
(* and the board changes at exactly two cells: the origin becomes empty    *)
(* and the neighbour holds the mover's colour; the other 47 cells and both *)
(* capture counters are unchanged.                                         *)
(***************************************************************************)
Ahead(coordinates, direction) ==
    <<coordinates[1] + CodeVector(direction)[1], coordinates[2] + CodeVector(direction)[2]>>

OpenPushCalled(self, playername, coordinates, direction) ==
    /\ self.game_winner = None
    /\ self.current_turn \in {None, playername}
    /\ self.game_board[coordinates[1]][coordinates[2]] = ColorOf(playername)
    /\ BehindIsFree(self.game_board, coordinates, direction)
    /\ OnBoard(Ahead(coordinates, direction)[1], Ahead(coordinates, direction)[2])
    /\ self.game_board[Ahead(coordinates, direction)[1]][Ahead(coordinates, direction)[2]]
           = "X"

ChangedCells(before, after) ==
    {co \in Coordinates : before[co[1]][co[2]] # after[co[1]][co[2]]}

MinimalOpenPush ==
    (Returned /\ OpenPushCalled(pre.self, Mover, call.coordinates, call.direction)) =>
        /\ ret = "True"
        /\ ChangedCells(pre.self.game_board, game_board)
               = {call.coordinates, Ahead(call.coordinates, call.direction)}
        /\ game_board[call.coordinates[1]][call.coordinates[2]] = "X"
        /\ game_board[Ahead(call.coordinates, call.direction)[1]]
                     [Ahead(call.coordinates, call.direction)[2]] = ColorOf(Mover)
        /\ players = pre.self.players

\* An accepted push of a single marble into the empty cell ahead of it.
OpenPushMade ==
    /\ Returned /\ ret = "True"
    /\ OpenPushCalled(pre.self, Mover, call.coordinates, call.direction)
    /\ Cardinality(ChangedCells(pre.self.game_board, game_board)) = 2

(***************************************************************************)
(* C19. In every reachable state the red marbles on the board plus the two *)
(* capture counters make 13: every red marble that leaves the board in a   *)
(* call is credited to the mover and to nobody else, and no counter grows  *)
(* without a red marble leaving the board.                                 *)
(***************************************************************************)
RedsOnBoard(board) == CountOf(board, "R")

RedAccounting ==
    /\ RedsOnBoard(game_board) + Captured(Self, "PlayerA") + Captured(Self, "PlayerB") = 13
    /\ Returned =>
          /\ Captured(Self, Mover) - Captured(pre.self, Mover)
                 = RedsOnBoard(pre.self.game_board) - RedsOnBoard(game_board)
          /\ Captured(Self, NonMover) = Captured(pre.self, NonMover)

\* The call just made took a red marble off the board, the mover's second at least.
RedsLeftBoard ==
    /\ Returned
    /\ RedsOnBoard(game_board) = RedsOnBoard(pre.self.game_board) - 1
    /\ Captured(Self, Mover) + Captured(Self, NonMover) = 13 - RedsOnBoard(game_board)
    /\ Captured(Self, Mover) >= 2

(***************************************************************************)
(* C20. In every reachable state without a winner the player whose turn it *)
(* is (each of the two players while there is no current turn) has a cell  *)
(* and a direction that make_move accepts: no state has a player to move   *)
(* who is stuck and no winner recorded.                                    *)
(***************************************************************************)
HasAcceptedMove(self, playername) ==
    \E coordinates \in Coordinates, direction \in Directions :
        make_move(self, playername, coordinates, direction).ret = "True"

NoStuckGame ==
    (pc = "idle" /\ game_winner = None) =>
        \A playername \in PlayerNames :
            current_turn \in {None, playername} => HasAcceptedMove(Self, playername)

\* PlayerB is to move with a single marble left, and has a move.
LastMarbleCanMove ==
    /\ pc = "idle" /\ game_winner = None /\ current_turn = "PlayerB"
    /\ CountOf(game_board, "B") = 1
    /\ HasAcceptedMove(Self, "PlayerB")

(***************************************************************************)
(* C21. Every successful make_move leaves the number of marbles of the     *)
(* mover's colour on the board unchanged and lowers the number of the      *)
(* opponent's colour by at most 1, and a call that does not succeed        *)
(* changes neither; so the White and the Black count are at most 8 in      *)
(* every reachable state, never increase, and a player's count drops only  *)
(* through a move of the opponent.                                         *)
(***************************************************************************)
ColourCount(board, playername) == CountOf(board, ColorOf(playername))

PerColourCounts ==
    /\ \A playername \in PlayerNames : ColourCount(game_board, playername) <= 8
    /\ Returned =>
          /\ ColourCount(game_board, Mover) = ColourCount(pre.self.game_board, Mover)
          /\ ColourCount(game_board, NonMover) <= ColourCount(pre.self.game_board, NonMover)
          /\ ColourCount(game_board, NonMover)
                 >= ColourCount(pre.self.game_board, NonMover) - 1
          /\ ret # "True" =>
                 ColourCount(game_board, NonMover)
                     = ColourCount(pre.self.game_board, NonMover)

\* A successful push that dropped a marble of the opponent's and none of the mover's.
OpponentMarbleDropped ==
    /\ Returned /\ ret = "True" /\ expelled = ColorOf(NonMover)
    /\ ColourCount(game_board, NonMover) = ColourCount(pre.self.game_board, NonMover) - 1
    /\ ColourCount(game_board, Mover) = ColourCount(pre.self.game_board, Mover)

====
